---- MODULE Spec2Model ----
(***************************************************************************)
(* Model of generators/service-watson-tone-analyzer/templates/python/      *)
(* instrumentation.py.                                                      *)
(*                                                                          *)
(* The module body runs once, on the importing thread (the loader):         *)
(*   line 4-7  tone_analyzer = ToneAnalyzerV3(                              *)
(*                 username=IBMCloudEnv.getString('..._username'),          *)
(*                 password=IBMCloudEnv.getString('..._password'),          *)
(*                 version='2016-05-19')                                    *)
(*   line 9    def getService(app):                                         *)
(*   line 10       return 'watson-tone-analyzer', tone_analyzer             *)
(* Python evaluates the keyword arguments left to right, then calls the     *)
(* constructor, then binds the module global, then executes the def.        *)
(* There is no try/except: an exception of getString or of the constructor  *)
(* ends the module body.  Once getService is bound, any thread may call it; *)
(* a call is the byte-code sequence bind-argument, LOAD_GLOBAL, return.     *)
(*                                                                          *)
(* IBMCloudEnv.getString and ToneAnalyzerV3 are external: the resolver is   *)
(* an arbitrary map from keys to "returns v" or "raises", the constructor   *)
(* accepts or rejects its arguments nondeterministically.                   *)
(***************************************************************************)
EXTENDS Integers, Sequences, FiniteSets, TLC

\* ---------------------------------------------------------------- bounds
NumThreads == 2      \* threads that call getService
NumContexts == 2     \* distinct non-null values passed as app
MaxCalls == 3        \* getService calls in one run

\* ------------------------------------------------------- program literals
UsernameKey == "watson_tone_analyzer_username"
PasswordKey == "watson_tone_analyzer_password"
Version == "2016-05-19"
ServiceName == "watson-tone-analyzer"

\* ---------------------------------------------------------------- domains
Keys == {UsernameKey, PasswordKey}
Values == {"u1", "p1", ""}           \* what the resolver may return
Unset == "<unset>"                   \* an argument slot not yet evaluated
Raise == [ok |-> FALSE, value |-> Unset]
Outcomes == {[ok |-> TRUE, value |-> v] : v \in Values} \cup {Raise}
Threads == 1..NumThreads
Null == 0                            \* the null / None context
Contexts == Null..NumContexts
NoArg == -1                          \* no frame of getService is active
Unbound == 0                         \* the name tone_analyzer is not bound

VARIABLES
    env,               \* the resolver: key -> outcome of getString(key)
    pc,                \* where the module body is
    username,          \* evaluated keyword argument username
    password,          \* evaluated keyword argument password
    newClient,         \* the constructor's result, before it is bound
    heap,              \* client objects: object id -> constructor arguments
    tone_analyzer,     \* the module global: an object id, or Unbound
    getServiceDefined, \* the def of line 9 has been executed
    error,             \* the exception that ended the module body
    getStringCalls,    \* keys IBMCloudEnv.getString was called with
    ctorCalls,         \* arguments ToneAnalyzerV3 was called with
    rejected,          \* ToneAnalyzerV3 raised
    events,            \* the module body's steps, in order
    tpc,               \* per caller thread: position inside getService
    app,               \* per caller thread: the parameter app
    reg,               \* per caller thread: the value LOAD_GLOBAL pushed
    calls,             \* number of getService calls started
    returns            \* what the getService calls returned, in order

vars == <<env, pc, username, password, newClient, heap, tone_analyzer,
          getServiceDefined, error, getStringCalls, ctorCalls, rejected,
          events, tpc, app, reg, calls, returns>>

\* what the module body leaves behind: the binding and the calls it made
binding == <<tone_analyzer, heap, getServiceDefined>>
loaderVars == <<pc, username, password, newClient, error, events, getStringCalls,
                ctorCalls, rejected>>

\* ------------------------------------------------------------- operators
\* variant of getString: a missing key yields the empty string, no error
getStringDefault(key) ==
    IF env[key].ok THEN env[key] ELSE [ok |-> TRUE, value |-> ""]

\* IBMCloudEnv.getString(key): the outcome the environment gives
getString(key) == env[key]

\* variant of CtorArgs: the two credentials change places
CtorArgsSwapped(u, p) == [username |-> p, password |-> u, version |-> Version]

\* the keyword arguments of the constructor call, lines 5-7
CtorArgs(u, p) == [username |-> u, password |-> p, version |-> Version]

\* variant of getService: the client is handed out only for a non-null app
getServiceByApp(a, client) ==
    <<ServiceName, IF a = Null THEN Unbound ELSE client>>

\* the tuple built by line 10; app is the (unused) parameter
getService(a, client) == <<ServiceName, client>>

\* ------------------------------------------------------------------ Init
Init ==
    /\ env \in [Keys -> Outcomes]
    /\ pc = "resolve_username"
    /\ username = Unset
    /\ password = Unset
    /\ newClient = Unbound
    /\ heap = <<>>
    /\ tone_analyzer = Unbound
    /\ getServiceDefined = FALSE
    /\ error = "none"
    /\ getStringCalls = <<>>
    /\ ctorCalls = <<>>
    /\ rejected = FALSE
    /\ events = <<>>
    /\ tpc = [t \in Threads |-> "idle"]
    /\ app = [t \in Threads |-> NoArg]
    /\ reg = [t \in Threads |-> Unbound]
    /\ calls = 0
    /\ returns = <<>>

\* ------------------------------------------------- module body (loader)
\* variant of ResolveUsername: a failure is noted and the next key is still
\* resolved
ResolveUsernameCollect ==
    /\ pc = "resolve_username"
    /\ getStringCalls' = Append(getStringCalls, UsernameKey)
    /\ events' = Append(events, "resolve_username")
    /\ username' = IF env[UsernameKey].ok THEN env[UsernameKey].value ELSE username
    /\ error' = IF env[UsernameKey].ok THEN error ELSE "ConfigMissing"
    /\ pc' = "resolve_password"
    /\ UNCHANGED <<env, rejected, password, newClient, heap, tone_analyzer,
                   getServiceDefined, ctorCalls, tpc, app, reg, calls, returns>>

\* line 5: username=IBMCloudEnv.getString('watson_tone_analyzer_username')
ResolveUsername ==
    /\ pc = "resolve_username"
    /\ getStringCalls' = Append(getStringCalls, UsernameKey)
    /\ events' = Append(events, "resolve_username")
    /\ IF getString(UsernameKey).ok
       THEN /\ username' = getString(UsernameKey).value
            /\ pc' = "resolve_password"
            /\ error' = error
       ELSE /\ username' = username
            /\ pc' = "failed"
            /\ error' = "ConfigMissing"
    /\ UNCHANGED <<env, rejected, password, newClient, heap, tone_analyzer,
                   getServiceDefined, ctorCalls, tpc, app, reg, calls, returns>>

\* line 6: password=IBMCloudEnv.getString('watson_tone_analyzer_password')
ResolvePassword ==
    /\ pc = "resolve_password"
    /\ getStringCalls' = Append(getStringCalls, PasswordKey)
    /\ events' = Append(events, "resolve_password")
    /\ IF getString(PasswordKey).ok
       THEN /\ password' = getString(PasswordKey).value
            /\ pc' = "construct"
            /\ error' = error
       ELSE /\ password' = password
            /\ pc' = "failed"
            /\ error' = "ConfigMissing"
    /\ UNCHANGED <<env, rejected, username, newClient, heap, tone_analyzer,
                   getServiceDefined, ctorCalls, tpc, app, reg, calls, returns>>

\* variant of Construct: the constructor's exception is caught and the module
\* body goes on with no client
ConstructSwallow ==
    /\ pc = "construct"
    /\ ctorCalls' = Append(ctorCalls, [username |-> username, password |-> password,
                                       version |-> Version])
    /\ events' = Append(events, "construct")
    /\ pc' = "store"
    /\ \E accepted \in BOOLEAN :
          IF accepted
          THEN /\ heap' = Append(heap, ctorCalls'[Len(ctorCalls')])
               /\ newClient' = Len(heap) + 1
               /\ rejected' = rejected
          ELSE /\ heap' = heap
               /\ newClient' = Unbound
               /\ rejected' = TRUE
    /\ UNCHANGED <<env, username, password, tone_analyzer, getServiceDefined,
                   error, getStringCalls, tpc, app, reg, calls, returns>>

\* variant of Construct: nothing is constructed while the module loads
ConstructDeferred ==
    /\ pc = "construct"
    /\ pc' = "def_getService"
    /\ UNCHANGED <<env, rejected, username, password, newClient, heap,
                   tone_analyzer, getServiceDefined, error, getStringCalls,
                   ctorCalls, events, tpc, app, reg, calls, returns>>

\* line 4: the call ToneAnalyzerV3(username=..., password=..., version=...);
\* the external constructor returns a new client or raises
Construct ==
    /\ pc = "construct"
    /\ ctorCalls' = Append(ctorCalls, CtorArgs(username, password))
    /\ events' = Append(events, "construct")
    /\ \E accepted \in BOOLEAN :
          IF accepted
          THEN /\ heap' = Append(heap, CtorArgs(username, password))
               /\ newClient' = Len(heap) + 1
               /\ rejected' = rejected
               /\ pc' = "store"
               /\ error' = error
          ELSE /\ heap' = heap
               /\ newClient' = newClient
               /\ rejected' = TRUE
               /\ pc' = "failed"
               /\ error' = "ClientConstructionFailure"
    /\ UNCHANGED <<env, username, password, tone_analyzer, getServiceDefined,
                   getStringCalls, tpc, app, reg, calls, returns>>

\* line 4: the assignment tone_analyzer = <result>
Store ==
    /\ pc = "store"
    /\ tone_analyzer' = newClient
    /\ events' = Append(events, "store")
    /\ pc' = "def_getService"
    /\ UNCHANGED <<env, rejected, username, password, newClient, heap, getServiceDefined,
                   error, getStringCalls, ctorCalls, tpc, app, reg, calls, returns>>

\* line 9: def getService(app) binds the function; the module body ends
DefGetService ==
    /\ pc = "def_getService"
    /\ getServiceDefined' = TRUE
    /\ events' = Append(events, "def_getService")
    /\ pc' = "loaded"
    /\ UNCHANGED <<env, rejected, username, password, newClient, heap, tone_analyzer,
                   error, getStringCalls, ctorCalls, tpc, app, reg, calls, returns>>

\* ------------------------------------------------ getService (callers)
\* variant of Call: every call runs the constructor again and rebinds the name
CallConstruct(t, ctx) ==
    /\ getServiceDefined
    /\ tpc[t] = "idle"
    /\ calls < MaxCalls
    /\ calls' = calls + 1
    /\ app' = [app EXCEPT ![t] = ctx]
    /\ tpc' = [tpc EXCEPT ![t] = "load_global"]
    /\ ctorCalls' = Append(ctorCalls, [username |-> username, password |-> password,
                                       version |-> Version])
    /\ heap' = Append(heap, ctorCalls'[Len(ctorCalls')])
    /\ tone_analyzer' = Len(heap) + 1
    /\ UNCHANGED <<env, rejected, pc, username, password, newClient,
                   getServiceDefined, error, getStringCalls, events, reg, returns>>

\* line 9: a thread calls getService(ctx): the frame binds app
Call(t, ctx) ==
    /\ getServiceDefined
    /\ tpc[t] = "idle"
    /\ calls < MaxCalls
    /\ calls' = calls + 1
    /\ app' = [app EXCEPT ![t] = ctx]
    /\ tpc' = [tpc EXCEPT ![t] = "load_global"]
    /\ UNCHANGED <<env, rejected, pc, username, password, newClient, heap, tone_analyzer,
                   getServiceDefined, error, getStringCalls, ctorCalls, events,
                   reg, returns>>

\* variant of LoadGlobal: the caller gets a client object of its own
LoadGlobalFresh(t) ==
    /\ tpc[t] = "load_global"
    /\ tone_analyzer # Unbound
    /\ heap' = Append(heap, heap[tone_analyzer])
    /\ reg' = [reg EXCEPT ![t] = Len(heap) + 1]
    /\ tpc' = [tpc EXCEPT ![t] = "return"]
    /\ UNCHANGED <<env, rejected, pc, username, password, newClient, tone_analyzer,
                   getServiceDefined, error, getStringCalls, ctorCalls, events,
                   app, calls, returns>>

\* line 10: LOAD_GLOBAL tone_analyzer (NameError if the name is not bound)
LoadGlobal(t) ==
    /\ tpc[t] = "load_global"
    /\ IF tone_analyzer = Unbound
       THEN /\ tpc' = [tpc EXCEPT ![t] = "raised"]
            /\ reg' = reg
       ELSE /\ tpc' = [tpc EXCEPT ![t] = "return"]
            /\ reg' = [reg EXCEPT ![t] = tone_analyzer]
    /\ UNCHANGED <<env, rejected, pc, username, password, newClient, heap, tone_analyzer,
                   getServiceDefined, error, getStringCalls, ctorCalls, events,
                   app, calls, returns>>

\* variant of Return: the name is unbound once the client is handed out
ReturnPop(t) ==
    /\ tpc[t] = "return"
    /\ returns' = Append(returns, [thread |-> t, app |-> app[t],
                                   result |-> <<ServiceName, reg[t]>>])
    /\ tpc' = [tpc EXCEPT ![t] = "idle"]
    /\ app' = [app EXCEPT ![t] = NoArg]
    /\ reg' = [reg EXCEPT ![t] = Unbound]
    /\ tone_analyzer' = Unbound
    /\ UNCHANGED <<env, rejected, pc, username, password, newClient, heap,
                   getServiceDefined, error, getStringCalls, ctorCalls, events,
                   calls>>

\* variant of Return: the name is rebound to a new client for the next caller
ReturnRebind(t) ==
    /\ tpc[t] = "return"
    /\ returns' = Append(returns, [thread |-> t, app |-> app[t],
                                   result |-> <<ServiceName, reg[t]>>])
    /\ tpc' = [tpc EXCEPT ![t] = "idle"]
    /\ app' = [app EXCEPT ![t] = NoArg]
    /\ reg' = [reg EXCEPT ![t] = Unbound]
    /\ heap' = Append(heap, heap[reg[t]])
    /\ tone_analyzer' = Len(heap) + 1
    /\ UNCHANGED <<env, rejected, pc, username, password, newClient,
                   getServiceDefined, error, getStringCalls, ctorCalls, events,
                   calls>>

\* line 10: BUILD_TUPLE, RETURN_VALUE; the frame (app, the stack) is dropped
Return(t) ==
    /\ tpc[t] = "return"
    /\ returns' = Append(returns, [thread |-> t, app |-> app[t],
                                   result |-> getService(app[t], reg[t])])
    /\ tpc' = [tpc EXCEPT ![t] = "idle"]
    /\ app' = [app EXCEPT ![t] = NoArg]
    /\ reg' = [reg EXCEPT ![t] = Unbound]
    /\ UNCHANGED <<env, rejected, pc, username, password, newClient, heap, tone_analyzer,
                   getServiceDefined, error, getStringCalls, ctorCalls, events,
                   calls>>

\* ------------------------------------------------------------------ Next
Next ==
    \/ ResolveUsername
    \/ ResolvePassword
    \/ Construct
    \/ Store
    \/ DefGetService
    \/ \E t \in Threads : \E ctx \in Contexts : Call(t, ctx)
    \/ \E t \in Threads : LoadGlobal(t)
    \/ \E t \in Threads : Return(t)

Spec == Init /\ [][Next]_vars

\* ------------------------------------------------------ derived notions
Initialized == pc = "loaded"
Results == {returns[i].result : i \in DOMAIN returns}
UsernameFails == ~env[UsernameKey].ok
PasswordFails == ~env[PasswordKey].ok
ThreadStep == tpc' # tpc
InCall(t) == tpc[t] \in {"load_global", "return"}

\* ---------------------------------------------------------------- claims

\* C1: after a successful initialization every getService call, whatever its
\* argument, returns the literal name "watson-tone-analyzer" and the one
\* client object the constructor built at initialization, the same object
\* as every other call.
C1_IdempotentAccessor ==
    \A i \in DOMAIN returns :
        /\ Initialized
        /\ Len(returns[i].result) = 2
        /\ returns[i].result[1] = "watson-tone-analyzer"
        /\ returns[i].result[2] = newClient
        /\ newClient \in DOMAIN heap
        /\ \A j \in DOMAIN returns : returns[j].result[2] = returns[i].result[2]

C1_Witness ==
    /\ Len(returns) >= 3
    /\ returns[1].app # returns[2].app
    /\ returns[1].thread # returns[2].thread

\* C2: ToneAnalyzerV3 is invoked at most once in every reachable state,
\* exactly once when initialization has completed, and no step of a
\* getService call changes the number of invocations.
C2_SingleConstruction ==
    /\ [](Len(ctorCalls) <= 1 /\ (Initialized => Len(ctorCalls) = 1))
    /\ [][ThreadStep => ctorCalls' = ctorCalls]_vars

C2_Witness ==
    /\ Initialized
    /\ Len(returns) >= 3
    /\ Len(ctorCalls) = 1

\* C3: if the resolver raises for the username key or for the password key,
\* initialization fails with that error: the module body goes nowhere but to
\* the failed state, the initialized state is not reached, getService is
\* never bound and no call of it ever starts or returns.
C3_FatalOnMissingConfig ==
    (UsernameFails \/ PasswordFails) =>
        /\ ~Initialized
        /\ ~getServiceDefined
        /\ tone_analyzer = Unbound
        /\ calls = 0
        /\ returns = <<>>
        /\ UsernameFails => pc \in {"resolve_username", "failed"}
        /\ PasswordFails => pc \in {"resolve_username", "resolve_password", "failed"}
        /\ pc = "failed" => error = "ConfigMissing"

C3_Witness ==
    /\ ~UsernameFails
    /\ PasswordFails
    /\ pc = "failed"
    /\ error = "ConfigMissing"

\* C4: whatever pair (u, p) the resolver returns for the two keys, the
\* constructor is called with username = u, password = p and version =
\* "2016-05-19", and getService(null) returns ("watson-tone-analyzer", c)
\* where c is the client built from exactly these arguments.
C4_CredentialsPassedThrough ==
    LET expected == [username |-> env[UsernameKey].value,
                     password |-> env[PasswordKey].value,
                     version |-> "2016-05-19"]
    IN  /\ \A i \in DOMAIN ctorCalls :
             /\ env[UsernameKey].ok
             /\ env[PasswordKey].ok
             /\ ctorCalls[i] = expected
        /\ pc \in {"store", "def_getService", "loaded"} => Len(ctorCalls) = 1
        /\ \A i \in DOMAIN returns :
             returns[i].app = Null =>
                /\ returns[i].result[1] = "watson-tone-analyzer"
                /\ returns[i].result[2] \in DOMAIN heap
                /\ heap[returns[i].result[2]] = expected

C4_Witness ==
    /\ env[UsernameKey].value = "u1"
    /\ env[PasswordKey].value = "p1"
    /\ \E i \in DOMAIN returns : returns[i].app = Null

\* C5: the accessor ignores its argument: the pair line 10 builds is the same
\* for every two context values, all calls return equal results whatever
\* they were passed, and the argument is kept nowhere once the call is over.
C5_ContextIgnored ==
    /\ \A i, j \in DOMAIN returns : returns[i].result = returns[j].result
    /\ Initialized =>
          \A c1, c2 \in Contexts :
             getService(c1, tone_analyzer) = getService(c2, tone_analyzer)
    /\ \A t \in Threads : tpc[t] = "idle" => app[t] = NoArg /\ reg[t] = Unbound
    /\ \A t \in Threads : tpc[t] = "return" => reg[t] = tone_analyzer

C5_Witness ==
    \E i, j \in DOMAIN returns :
        /\ returns[i].app = Null
        /\ returns[j].app # Null
        /\ returns[i].thread = returns[j].thread

\* C6: when the constructor raises, initialization ends in the failed state
\* with the constructor's own error, after exactly one constructor call and
\* one resolver call per key; no binding is stored and getService is never
\* bound; values the resolver returned are not rejected by the module itself;
\* and nothing happens after the failure (no retry).
C6_ConstructionFailureFatal ==
    /\ [](rejected =>
            /\ pc = "failed"
            /\ error = "ClientConstructionFailure"
            /\ Len(ctorCalls) = 1
            /\ getStringCalls = <<UsernameKey, PasswordKey>>
            /\ tone_analyzer = Unbound
            /\ heap = <<>>
            /\ ~getServiceDefined
            /\ returns = <<>>)
    /\ []((pc = "failed" /\ ~UsernameFails /\ ~PasswordFails) => rejected)
    /\ [][pc = "failed" => UNCHANGED vars]_vars

C6_Witness ==
    /\ rejected
    /\ pc = "failed"
    /\ error = "ClientConstructionFailure"

\* C7: getService has no error path and no side effect: no call ever raises,
\* every started call is in flight or has returned, no step of a call changes
\* the binding, the resolver calls or the constructor calls, and once the
\* binding is stored nothing changes it.
C7_AccessorFrame ==
    /\ [](\A t \in Threads : tpc[t] # "raised")
    /\ [](calls = Len(returns) + Cardinality({t \in Threads : InCall(t)}))
    /\ [][ThreadStep => UNCHANGED <<binding, loaderVars, env>>]_vars
    /\ [][tone_analyzer # Unbound => UNCHANGED <<tone_analyzer, heap>>]_vars

C7_Witness ==
    /\ Len(returns) >= 2
    /\ \E t \in Threads : InCall(t)

\* C8: under every interleaving of getService calls of several threads, all
\* callers hold and return the same client, every result is the pair
\* ("watson-tone-analyzer", the bound client), and no step of a call changes
\* the shared binding.
C8_ConcurrentReads ==
    /\ [](\A t1, t2 \in Threads :
            (tpc[t1] = "return" /\ tpc[t2] = "return") => reg[t1] = reg[t2])
    /\ [](\A r \in Results : r = <<"watson-tone-analyzer", tone_analyzer>>)
    /\ [](\A t \in Threads : tpc[t] = "return" => reg[t] \in {r[2] : r \in Results} \cup {tone_analyzer})
    /\ [][ThreadStep => UNCHANGED binding]_vars

C8_Witness ==
    /\ \A t \in Threads : tpc[t] = "return"
    /\ Len(returns) >= 1

\* C9: the module body runs in the order resolve username, resolve password,
\* construct, store, def getService; whenever getService is bound the binding
\* is the constructed client; the constructor calls are those of the module
\* body alone; no call observes an unbound name.
C9_EagerOrderedInit ==
    LET order == <<"resolve_username", "resolve_password", "construct", "store",
                   "def_getService">>
    IN  /\ Len(events) <= Len(order)
        /\ \A i \in DOMAIN events : events[i] = order[i]
        /\ Len(ctorCalls) = Cardinality({i \in DOMAIN events : events[i] = "construct"})
        /\ Len(getStringCalls) =
              Cardinality({i \in DOMAIN events : events[i] \in
                              {"resolve_username", "resolve_password"}})
        /\ tone_analyzer # Unbound => Len(events) >= 4
        /\ getServiceDefined =>
              /\ tone_analyzer # Unbound
              /\ tone_analyzer = newClient
              /\ tone_analyzer \in DOMAIN heap
              /\ heap[tone_analyzer] = ctorCalls[1]
        /\ calls > 0 => Initialized
        /\ \A t \in Threads : tpc[t] # "raised"
        /\ \A t \in Threads : tpc[t] = "return" => reg[t] # Unbound

C9_Witness ==
    /\ Initialized
    /\ calls = 0
    /\ Len(ctorCalls) = 1
    /\ tone_analyzer # Unbound

\* C10: the resolver is called at most twice, first for the username key and
\* then for the password key, never for another key and never by a step of
\* getService; if the username key fails the password key is not resolved
\* and the constructor is not called; if the password key fails the
\* constructor is not called.
C10_ResolverCalls ==
    /\ [](/\ Len(getStringCalls) <= 2
          /\ \A i \in DOMAIN getStringCalls :
                getStringCalls[i] = <<UsernameKey, PasswordKey>>[i]
          /\ UsernameFails => (Len(getStringCalls) <= 1 /\ ctorCalls = <<>>)
          /\ PasswordFails => ctorCalls = <<>>)
    /\ [][ThreadStep => getStringCalls' = getStringCalls]_vars

C10_Witness ==
    /\ UsernameFails
    /\ ~PasswordFails
    /\ pc = "failed"
    /\ getStringCalls = <<UsernameKey>>

====
